---- MODULE Spec2Model ----
(***************************************************************************)
(* ETL Flow Manager (src/1.py): the DatabaseManager connection state and   *)
(* the field-mapping driven transformation of ETLApp.run_etl_process.      *)
(*                                                                         *)
(* A pandas DataFrame is a record [loaded, columns, rows]: columns is the  *)
(* sequence of column labels (labels may repeat after a rename), rows the  *)
(* sequence of rows, each row the sequence of its cells by position.       *)
(* A cell is a record [kind, v] so that cells of every Python type compare.*)
(***************************************************************************)
EXTENDS Integers, Sequences, FiniteSets, TLC

\* ------------------------------------------------------------------ bounds
MaxRows == 2
MaxMappings == 2
MaxTime == 1
MaxDbRows == 2
MaxColumnRows == 2
MaxConstraintRows == 2

\* ------------------------------------------------- the database collaborator
\* What the connection form can point at: two reachable databases, a host
\* that refuses the connection (unreachable or authentication failure), and
\* a form whose port text is not a number.
ConnTargets == {"dbA", "dbB", "down", "badport"}
Reachable == {"dbA", "dbB"}
DbTypes == {"PostgreSQL", "MySQL", "Oracle"}
ComboDbTypes == {"PostgreSQL", "MySQL"}
NoEngine == "None"

\* The table names the databases and the forms use, in the order in which
\* inspector.get_table_names() lists them
TableOrder == <<"dim_customer", "order_items", "orders", "products">>
TableNames == {"dim_customer", "order_items", "orders", "products"}

\* A table of a database: its column names in order and its number of rows
NoTable == [exists |-> FALSE, columns |-> <<>>, rows |-> 0]
DbTable(cols, n) == [exists |-> TRUE, columns |-> cols, rows |-> n]

\* The two databases as the application finds them
InitialDb ==
  [d \in Reachable |->
     [t \in TableNames |->
        IF d = "dbA" /\ t = "dim_customer" THEN DbTable(<<"name", "valid_to">>, 0)
        ELSE IF d = "dbA" /\ t = "orders" THEN DbTable(<<"name">>, 1)
        ELSE IF d = "dbB" /\ t = "orders" THEN DbTable(<<"valid_to">>, 0)
        ELSE IF d = "dbB" /\ t = "products" THEN DbTable(<<"name">>, 0)
        ELSE NoTable]]

SeqToSet(s) == {s[i] : i \in 1..Len(s)}
NoDuplicates(s) == \A i, j \in 1..Len(s) : s[i] = s[j] => i = j

\* ---------------------------------------------------------------- datasets
SourceFields == {"full_name", "amt"}
TargetNames == {"name", "valid_to"}
\* What the user types over the default text of an SCD2 field
ScdTexts == {"valid_to", "is_current"}
Times == 1..MaxTime

IntCell(n) == [kind |-> "int", v |-> n]
TimeCell(t) == [kind |-> "datetime", v |-> t]
NoneCell == [kind |-> "none", v |-> 0]
TrueCell == [kind |-> "bool", v |-> 1]

None == [loaded |-> FALSE, columns |-> <<>>, rows |-> <<>>]
DataFrame(cols, rws) == [loaded |-> TRUE, columns |-> cols, rows |-> rws]

FieldNo(c) == IF c = "full_name" THEN 1 ELSE 2

\* The files the user can pick: a column layout over SourceFields and at most
\* MaxRows records, each a new record or a repetition of the one before it;
\* the cell of record k in column c is 10*k + FieldNo(c), so that every
\* (record, column) is told apart.
Layouts == {<<"full_name">>, <<"amt", "full_name">>}
RowIdSeqs ==
  {ids \in UNION {[1..n -> 1..MaxRows] : n \in 0..MaxRows} :
     \A r \in 1..Len(ids) :
       IF r = 1 THEN ids[r] = 1 ELSE ids[r] \in {ids[r - 1], ids[r - 1] + 1}}
CsvFile(cols, ids) ==
  DataFrame(cols, [r \in 1..Len(ids) |->
                     [i \in 1..Len(cols) |-> IntCell(10 * ids[r] + FieldNo(cols[i]))]])
CsvFiles == {CsvFile(cols, ids) : cols \in Layouts, ids \in RowIdSeqs}

\* ------------------------------------------------------------------- state
VARIABLES
  engine,             \* DatabaseManager.engine: NoEngine or the target it was created for
  metadata,           \* DatabaseManager.metadata: set of [name, origin, columns] table definitions
  last_connect,       \* what the most recent DatabaseManager.connect call did
  target_table_combo, \* ETLApp.target_table_combo: [items, current]
  target_fields_list, \* ETLApp.target_fields_list items
  source_data,        \* ETLApp.source_data
  mappings_table,     \* ETLApp.mappings_table rows: [source, target]
  scd2_checkbox,      \* ETLApp.scd2_checkbox.isChecked()
  scd2_start_date,    \* ETLApp.scd2_start_date.text()
  scd2_end_date,      \* ETLApp.scd2_end_date.text()
  scd2_current_flag,  \* ETLApp.scd2_current_flag.text()
  etl_run,            \* locals of the most recent run_etl_process call
  db,                 \* the databases: db[d][t] is table t of database d
  connected_once,     \* some DatabaseManager.connect call has returned True
  last_op,            \* what the most recent other DatabaseManager call did
  existing_tables_list, \* ETLApp.existing_tables_list: [items, current]
  new_column_name,    \* text of ETLApp.new_column_name
  table_name_input,   \* text of ETLApp.table_name_input
  columns_table,      \* ETLApp.columns_table rows: [name, type, primary_key, nullable]
  constraints_table   \* ETLApp.constraints_table rows, see ConstraintRow

connVars == <<engine, metadata, last_connect, connected_once>>
uiVars == <<target_table_combo, target_fields_list, existing_tables_list,
           new_column_name>>
formVars == <<table_name_input, columns_table, constraints_table>>
etlVars == <<source_data, mappings_table, scd2_checkbox, scd2_start_date,
             scd2_end_date, scd2_current_flag>>
vars == <<engine, metadata, last_connect, target_table_combo, target_fields_list,
          source_data, mappings_table, scd2_checkbox, scd2_start_date,
          scd2_end_date, scd2_current_flag, etl_run, db, connected_once, last_op,
          existing_tables_list, new_column_name, table_name_input,
          columns_table, constraints_table>>

NoConnect == [called |-> FALSE, db_type |-> "", target |-> "", success |-> FALSE,
              engine_created |-> FALSE, reflect_called |-> FALSE]
\* No DatabaseManager call: op is the method, result "ok" for (True, ...),
\* "false" for (False, message) and "raise" for an exception that leaves the
\* method; emitted says that the statement or definition reached the
\* database, committed that its transaction was committed, outcome whether
\* rows or the message came back; pk and fks are the keys of the definition
\* that create_table built; handler is the ETLApp slot that ran.
NoOp == [handler |-> "", op |-> "none", result |-> "none", table |-> "",
         fate |-> "", emitted |-> FALSE, committed |-> FALSE, returns_rows |-> FALSE,
         outcome |-> "none", columns |-> <<>>, constraints |-> <<>>,
         pk |-> {}, fks |-> <<>>]
NoRun == [outcome |-> "none", mapped_ok |-> FALSE, mapped |-> None,
          insert_called |-> FALSE, etl_data |-> None, current_time |-> 0,
          rows_before |-> 0, source_before |-> None]

\* ------------------------------------------------------ DatabaseManager
MetaNames(meta) == {m.name : m \in meta}

\* inspector.get_table_names() of database d, the databases being as in
\* database
DbTablesOf(database, d) ==
  IF d \in Reachable
  THEN SelectSeq(TableOrder, LAMBDA t : database[d][t].exists)
  ELSE <<>>

\* inspector.get_columns(table) of a table, names only
DbColumnsOf(database, d, table) ==
  IF d \in Reachable /\ table \in TableNames THEN database[d][table].columns ELSE <<>>

\* SELECT count(*) of a table; 0 where there is no such table
DbRows(d, table) ==
  IF d \in Reachable /\ table \in TableNames THEN db[d][table].rows ELSE 0

\* The same of the databases as they are now
DbTables(d) == DbTablesOf(db, d)
DbColumns(d, table) == DbColumnsOf(db, d, table)

\* Variant: the else branch missing, every dialect goes on to create_engine.
SupportedDialectAny(db_type) == TRUE

\* The dialect test of connect: only these two build a connection string.
SupportedDialect(db_type) == db_type \in {"PostgreSQL", "MySQL"}

\* create_engine parses the URL and raises when the port text is no number;
\* it opens no connection.
CreateEngineRaises(target) == target = "badport"

\* How far metadata.reflect gets against a target: the number of available
\* tables loaded before the connection fails. A host that refuses the
\* connection loads none; a reachable database may be lost at any point.
ReflectProgress(target) ==
  IF target \in Reachable THEN 0..Len(DbTables(target)) ELSE {0}

ReflectCompletes(target, n) == target \in Reachable /\ n = Len(DbTables(target))

\* MetaData.reflect: loads, in the order of the available names, the tables
\* that the MetaData does not hold yet; tables already held are kept as is.
Reflect(meta, target, n) ==
  meta \cup {[name |-> DbTables(target)[i], origin |-> target,
               columns |-> DbColumns(target, DbTables(target)[i])] :
               i \in {j \in 1..n : DbTables(target)[j] \notin MetaNames(meta)}}

\* DatabaseManager.get_tables
get_tables == IF engine = NoEngine THEN <<>> ELSE DbTables(engine)

\* DatabaseManager.get_table_columns, names only, against engine e
get_table_columns(e, table_name) ==
  IF e = NoEngine THEN <<>> ELSE DbColumns(e, table_name)

\* inspect(self.engine) opens a connection: with an engine whose host refuses
\* it, get_tables and get_table_columns raise OperationalError, which neither
\* method catches.
InspectRaises(e) == e # NoEngine /\ e \notin Reachable

\* DatabaseManager.connect(db_type, host, port, database, username, password);
\* target stands for host, port, database and credentials, n for how far the
\* reflection gets.
connect(db_type, target, n) ==
  IF ~SupportedDialect(db_type)
  THEN \* raise ValueError("Unsupported database type") inside the try
       /\ last_connect' = [called |-> TRUE, db_type |-> db_type, target |-> target,
                           success |-> FALSE, engine_created |-> FALSE,
                           reflect_called |-> FALSE]
       /\ UNCHANGED <<engine, metadata, connected_once>>
  ELSE IF CreateEngineRaises(target)
  THEN /\ last_connect' = [called |-> TRUE, db_type |-> db_type, target |-> target,
                           success |-> FALSE, engine_created |-> FALSE,
                           reflect_called |-> FALSE]
       /\ UNCHANGED <<engine, metadata, connected_once>>
  ELSE \* self.engine is assigned before the reflection is attempted
       /\ engine' = target
       /\ metadata' = Reflect(metadata, target, n)
       /\ last_connect' = [called |-> TRUE, db_type |-> db_type, target |-> target,
                           success |-> ReflectCompletes(target, n),
                           engine_created |-> TRUE, reflect_called |-> TRUE]
       /\ connected_once' = (connected_once \/ ReflectCompletes(target, n))

\* ------------------------------------------------------------ ETLApp, lists
TargetTable ==
  IF target_table_combo.current = 0 THEN ""
  ELSE target_table_combo.items[target_table_combo.current]

\* ETLApp.update_table_lists with engine e and the databases as in database.
\* The list of existing tables is cleared and filled, which leaves no item
\* current. In the target combo clear() and addItems(tables) make the first
\* table current, and each change of the current text runs
\* update_target_fields.
update_table_lists(database, e) ==
  LET tables == IF e = NoEngine THEN <<>> ELSE DbTablesOf(database, e) IN
  /\ existing_tables_list' = [items |-> tables, current |-> 0]
  /\ target_table_combo' = [items |-> tables,
                            current |-> IF tables = <<>> THEN 0 ELSE 1]
  /\ target_fields_list' = IF tables = <<>> THEN <<>>
                           ELSE DbColumnsOf(database, e, tables[1])

\* ETLApp.connect_to_db
connect_to_db(db_type, target, n) ==
  /\ connect(db_type, target, n)
  /\ IF last_connect'.success
     THEN update_table_lists(db, engine') /\ UNCHANGED new_column_name
     ELSE UNCHANGED uiVars
  /\ etl_run' = NoRun
  /\ last_op' = NoOp
  /\ UNCHANGED db
  /\ UNCHANGED etlVars
  /\ UNCHANGED formVars

\* DatabaseManager.connect called on the manager itself, the lists untouched
manager_connect(db_type, target, n) ==
  /\ connect(db_type, target, n)
  /\ etl_run' = NoRun
  /\ last_op' = NoOp
  /\ UNCHANGED db
  /\ UNCHANGED uiVars
  /\ UNCHANGED etlVars
  /\ UNCHANGED formVars

\* The user picks another target table: currentTextChanged runs
\* ETLApp.update_target_fields, which clears the list and refills it from
\* get_table_columns of the engine the manager holds now.
update_target_fields(i) ==
  /\ i \in 1..Len(target_table_combo.items)
  /\ i # target_table_combo.current
  /\ target_table_combo' = [target_table_combo EXCEPT !.current = i]
  /\ target_fields_list' =
       IF engine \in Reachable
       THEN get_table_columns(engine, target_table_combo.items[i])
       ELSE <<>>
  /\ UNCHANGED <<existing_tables_list, new_column_name>>
  /\ etl_run' = NoRun
  /\ last_op' = NoOp
  /\ UNCHANGED db
  /\ UNCHANGED connVars
  /\ UNCHANGED etlVars
  /\ UNCHANGED formVars

\* ------------------------------------------------- pandas, as the code uses it
ColIndex(df, label) == CHOOSE i \in 1..Len(df.columns) : df.columns[i] = label

\* The dict built from the mapping rows by mappings[source] = target: its keys
\* in the order of their first insertion ...
RECURSIVE DictKeys(_)
DictKeys(tbl) ==
  IF tbl = <<>> THEN <<>>
  ELSE LET front == DictKeys(SubSeq(tbl, 1, Len(tbl) - 1))
           key == tbl[Len(tbl)].source
       IN IF key \in SeqToSet(front) THEN front ELSE Append(front, key)

\* ... and under each key the target of the last row that has this source.
DictGet(tbl, key) ==
  LET last == CHOOSE i \in 1..Len(tbl) :
                /\ tbl[i].source = key
                /\ \A j \in (i + 1)..Len(tbl) : tbl[j].source # key
  IN tbl[last].target

HasKey(tbl, key) == \E i \in 1..Len(tbl) : tbl[i].source = key

\* df[[labels]]: raises KeyError when a label is no column of df
SelectRaises(df, labels) == \E i \in 1..Len(labels) : labels[i] \notin SeqToSet(df.columns)

\* Variant: the cells taken by position instead of by label.
SelectColumnsByPosition(df, labels) ==
  DataFrame(labels,
            [r \in 1..Len(df.rows) |-> [i \in 1..Len(labels) |-> df.rows[r][i]]])

\* df[[labels]].copy(): a new frame with the named columns in the order of
\* labels, every row kept in place
SelectColumns(df, labels) ==
  DataFrame(labels,
            [r \in 1..Len(df.rows) |->
               [i \in 1..Len(labels) |-> df.rows[r][ColIndex(df, labels[i])]]])

\* Variant: rename without inplace=True, the result dropped.
RenameColumnsDropped(df, tbl) == df

\* df.rename(columns=mappings, inplace=True): every label that is a key of
\* the dict is replaced by the value under it, the cells are left alone
RenameColumns(df, tbl) ==
  [df EXCEPT !.columns = [i \in 1..Len(df.columns) |->
                            IF HasKey(tbl, df.columns[i])
                            THEN DictGet(tbl, df.columns[i])
                            ELSE df.columns[i]]]

\* Variant: the assignment always adds a column.
SetItemAppend(df, label, cell) ==
  [df EXCEPT !.columns = Append(df.columns, label),
             !.rows = [r \in 1..Len(df.rows) |-> Append(df.rows[r], cell)]]

\* df[label] = scalar: every column that carries the label is overwritten in
\* every row; when no column carries it, a new last column is added
SetItem(df, label, cell) ==
  IF label \in SeqToSet(df.columns)
  THEN [df EXCEPT !.rows = [r \in 1..Len(df.rows) |->
                              [i \in 1..Len(df.columns) |->
                                 IF df.columns[i] = label THEN cell
                                 ELSE df.rows[r][i]]]]
  ELSE [df EXCEPT !.columns = Append(df.columns, label),
                  !.rows = [r \in 1..Len(df.rows) |-> Append(df.rows[r], cell)]]

RECURSIVE DropDuplicates(_)
\* DataFrame.drop_duplicates: the first occurrence of every row is kept
DropDuplicates(rws) ==
  IF rws = <<>> THEN <<>>
  ELSE LET front == DropDuplicates(SubSeq(rws, 1, Len(rws) - 1))
           row == rws[Len(rws)]
       IN IF row \in SeqToSet(front) THEN front ELSE Append(front, row)

\* ------------------------------------------------------ run_etl_process, parts
\* Variant: source fields that are no column of the frame are skipped.
MapColumnsSkipMissing(df, tbl) ==
  LET present == SelectSeq(DictKeys(tbl), LAMBDA k : k \in SeqToSet(df.columns))
  IN [raised |-> FALSE, df |-> RenameColumns(SelectColumns(df, present), tbl)]

\* "Select only mapped columns and rename them": the frame, or the KeyError
\* of the selection
MapColumns(df, tbl) ==
  IF SelectRaises(df, DictKeys(tbl))
  THEN [raised |-> TRUE, df |-> None]
  ELSE [raised |-> FALSE, df |-> RenameColumns(SelectColumns(df, DictKeys(tbl)), tbl)]

\* Variant: the end field set to the load timestamp.
AddScd2FieldsEndIsNow(df, checked, start, end, flag, now) ==
  IF checked
  THEN SetItem(SetItem(SetItem(df, start, TimeCell(now)), end, TimeCell(now)),
               flag, TrueCell)
  ELSE df

\* Variant: the checkbox not consulted.
AddScd2FieldsAlways(df, checked, start, end, flag, now) ==
  SetItem(SetItem(SetItem(df, start, TimeCell(now)), end, NoneCell), flag, TrueCell)

\* "Add SCD2 fields if enabled"
AddScd2Fields(df, checked, start, end, flag, now) ==
  IF checked
  THEN SetItem(SetItem(SetItem(df, start, TimeCell(now)), end, NoneCell), flag, TrueCell)
  ELSE df

\* What insert_data can do with the frame: append it (True), fail in the
\* driver with an SQLAlchemyError (False, message), or raise another
\* exception, which insert_data does not catch. Without an engine
\* self.engine.connect() raises AttributeError; an engine for a host that
\* refuses the connection raises OperationalError.
InsertFates(e) ==
  IF e = NoEngine THEN {"raise"}
  ELSE IF e \notin Reachable THEN {"sqlerror"}
  ELSE {"ok", "sqlerror", "raise"}

\* df.to_sql(table_name, engine, if_exists='append', index=False) when the
\* database takes it: the table is created from the frame when it is
\* missing, and the rows of the frame are added to the rows it holds.
ToSqlAccepts(d, table_name, df) ==
  /\ d \in Reachable
  /\ table_name \in TableNames
  /\ db[d][table_name].rows + Len(df.rows) <= MaxDbRows
  /\ db[d][table_name].exists \/ NoDuplicates(df.columns)

\* Variant: if_exists='replace', the table holds the rows of the frame only.
ToSqlReplace(d, table_name, df) ==
  LET old == db[d][table_name]
      new == [exists |-> TRUE,
              columns |-> IF old.exists THEN old.columns ELSE df.columns,
              rows |-> Len(df.rows)]
  IN [db EXCEPT ![d][table_name] = new]

ToSqlAppend(d, table_name, df) ==
  LET old == db[d][table_name]
      new == [exists |-> TRUE,
              columns |-> IF old.exists THEN old.columns ELSE df.columns,
              rows |-> old.rows + Len(df.rows)]
  IN [db EXCEPT ![d][table_name] = new]

\* ---------------------------------------- DatabaseManager, the operations
\* What the database does with a call whose fate is not its own decision:
\* "db" lets the database decide, "sqlerror" is a driver error before the
\* statement arrives (the connection is lost), "commit_error" one raised by
\* connection.commit().
Fates == {"db", "sqlerror", "commit_error"}

\* A column and a constraint as ETLApp.create_table builds them from the form
Col(n, pk) == [name |-> n, type |-> "Integer", primary_key |-> pk, nullable |-> ~pk]
Constraint(ty, s, tt, tc) ==
  [type |-> ty, source_column |-> s, target_table |-> tt, target_column |-> tc]

ColumnNames(columns) == [i \in 1..Len(columns) |-> columns[i].name]

\* primary_key_cols of create_table
PrimaryKeyCols(columns) ==
  {columns[i].name : i \in {j \in 1..Len(columns) : columns[j].primary_key}}

\* Variant: every entry of the constraints list becomes a foreign key.
ForeignKeyEntriesAll(constraints) == constraints

\* The entries of the constraints list that become a ForeignKeyConstraint
ForeignKeyEntries(constraints) ==
  SelectSeq(constraints, LAMBDA c : c.type = "foreign_key")

\* Table(table_name, self.metadata, ...) raises (an SQLAlchemyError) when the
\* MetaData already holds a table of that name, when two columns share a
\* name, and when a foreign key starts at a column the table does not have;
\* the MetaData is then as before.
TableConstructFails(meta, table_name, columns, fks) ==
  \/ table_name \in MetaNames(meta)
  \/ ~NoDuplicates(ColumnNames(columns))
  \/ \E i \in 1..Len(fks) : fks[i].source_column \notin SeqToSet(ColumnNames(columns))

\* The MetaData once Table(...) has returned: the new table is registered
RegisteredTable(meta, table_name, columns) ==
  meta \cup {[name |-> table_name, origin |-> "create_table",
               columns |-> ColumnNames(columns)]}

\* Compiling CREATE TABLE resolves each foreign key against the MetaData:
\* NoReferencedTableError / NoReferencedColumnError when it holds no such
\* table or the table it holds has no such column.
FkResolves(meta, fks) ==
  \A i \in 1..Len(fks) :
    \E m \in meta : /\ m.name = fks[i].target_table
                    /\ fks[i].target_column \in SeqToSet(m.columns)

\* Variant: the database replaces a table that exists.
DbAcceptsCreateOrReplace(d, table_name, columns, fks) ==
  /\ table_name \in TableNames
  /\ \A i \in 1..Len(fks) :
       \/ /\ fks[i].target_table = table_name
          /\ fks[i].target_column \in SeqToSet(ColumnNames(columns))
       \/ /\ fks[i].target_table \in TableNames \ {table_name}
          /\ db[d][fks[i].target_table].exists
          /\ fks[i].target_column \in SeqToSet(db[d][fks[i].target_table].columns)

\* The database takes CREATE TABLE when it has no table of that name and
\* every foreign key points at a column of a table it has (or of the new
\* table itself).
DbAcceptsCreate(d, table_name, columns, fks) ==
  /\ table_name \in TableNames
  /\ ~db[d][table_name].exists
  /\ \A i \in 1..Len(fks) :
       \/ /\ fks[i].target_table = table_name
          /\ fks[i].target_column \in SeqToSet(ColumnNames(columns))
       \/ /\ fks[i].target_table \in TableNames \ {table_name}
          /\ db[d][fks[i].target_table].exists
          /\ fks[i].target_column \in SeqToSet(db[d][fks[i].target_table].columns)

\* DatabaseManager.create_table as a function of the state: what it returns,
\* the MetaData and the databases it leaves, and whether the definition was
\* sent.
CreateTable(table_name, columns, constraints, fate) ==
  LET fks == ForeignKeyEntries(constraints)
      registered == RegisteredTable(metadata, table_name, columns)
  IN IF TableConstructFails(metadata, table_name, columns, fks)
     THEN [result |-> "false", metadata |-> metadata, db |-> db, emitted |-> FALSE]
     ELSE IF engine = NoEngine
     THEN \* table.create(None): AttributeError, no SQLAlchemyError
          [result |-> "raise", metadata |-> registered, db |-> db, emitted |-> FALSE]
     ELSE IF engine \notin Reachable \/ fate # "db" \/ ~FkResolves(registered, fks)
     THEN [result |-> "false", metadata |-> registered, db |-> db, emitted |-> FALSE]
     ELSE IF ~DbAcceptsCreate(engine, table_name, columns, fks)
     THEN [result |-> "false", metadata |-> registered, db |-> db, emitted |-> TRUE]
     ELSE [result |-> "ok", metadata |-> registered,
           db |-> [db EXCEPT ![engine][table_name] = DbTable(ColumnNames(columns), 0)],
           emitted |-> TRUE]

\* DatabaseManager.create_table(table_name, columns, constraints)
create_table(table_name, columns, constraints, fate) ==
  LET r == CreateTable(table_name, columns, constraints, fate) IN
  /\ metadata' = r.metadata
  /\ db' = r.db
  /\ last_op' = [NoOp EXCEPT !.op = "create_table", !.result = r.result,
                             !.table = table_name, !.fate = fate,
                             !.emitted = r.emitted, !.committed = (r.result = "ok"),
                             !.columns = columns, !.constraints = constraints,
                             !.pk = PrimaryKeyCols(columns),
                             !.fks = ForeignKeyEntries(constraints)]
  /\ etl_run' = NoRun
  /\ UNCHANGED <<engine, last_connect, connected_once>>
  /\ UNCHANGED uiVars
  /\ UNCHANGED etlVars
  /\ UNCHANGED formVars

\* The statements typed into the SQL console
Sql(kind, table_name) == [kind |-> kind, table |-> table_name]
SqlReturnsRows(sql) == sql.kind = "select"

\* The database runs SELECT * FROM t and DROP TABLE t when it has t, and
\* CREATE TABLE t (id INTEGER, ref INTEGER) when it has not; it rejects
\* anything else.
DbAcceptsSql(d, sql) ==
  /\ sql.table \in TableNames
  /\ \/ sql.kind \in {"select", "drop"} /\ db[d][sql.table].exists
     \/ sql.kind = "create" /\ ~db[d][sql.table].exists

DbAfterSql(d, sql) ==
  IF sql.kind = "create" THEN [db EXCEPT ![d][sql.table] = DbTable(<<"id", "ref">>, 0)]
  ELSE IF sql.kind = "drop" THEN [db EXCEPT ![d][sql.table] = NoTable]
  ELSE db

\* Variant: the commit is issued for every statement that ran.
StatementCommitsAlways(accepts, returns_rows, fate) ==
  IF engine = NoEngine
  THEN [result |-> "raise", emitted |-> FALSE, committed |-> FALSE, outcome |-> "none"]
  ELSE IF engine \notin Reachable \/ fate = "sqlerror"
  THEN [result |-> "false", emitted |-> FALSE, committed |-> FALSE, outcome |-> "none"]
  ELSE IF ~accepts
  THEN [result |-> "false", emitted |-> TRUE, committed |-> FALSE, outcome |-> "none"]
  ELSE IF returns_rows
  THEN [result |-> "ok", emitted |-> TRUE, committed |-> TRUE, outcome |-> "rows"]
  ELSE IF fate = "commit_error"
  THEN [result |-> "false", emitted |-> TRUE, committed |-> FALSE, outcome |-> "none"]
  ELSE [result |-> "ok", emitted |-> TRUE, committed |-> TRUE, outcome |-> "message"]

\* with self.engine.connect() as connection: connection.execute(text(sql));
\* rows are fetched and returned, anything else is committed; a statement
\* that is not committed is rolled back when the connection closes.
\* Without an engine self.engine.connect() raises AttributeError, which
\* `except SQLAlchemyError` lets through.
Statement(accepts, returns_rows, fate) ==
  IF engine = NoEngine
  THEN [result |-> "raise", emitted |-> FALSE, committed |-> FALSE, outcome |-> "none"]
  ELSE IF engine \notin Reachable \/ fate = "sqlerror"
  THEN [result |-> "false", emitted |-> FALSE, committed |-> FALSE, outcome |-> "none"]
  ELSE IF ~accepts
  THEN [result |-> "false", emitted |-> TRUE, committed |-> FALSE, outcome |-> "none"]
  ELSE IF returns_rows
  THEN [result |-> "ok", emitted |-> TRUE, committed |-> FALSE, outcome |-> "rows"]
  ELSE IF fate = "commit_error"
  THEN [result |-> "false", emitted |-> TRUE, committed |-> FALSE, outcome |-> "none"]
  ELSE [result |-> "ok", emitted |-> TRUE, committed |-> TRUE, outcome |-> "message"]

\* The record of a call that ran a statement
StatementOp(op, table_name, fate, returns_rows, r) ==
  [NoOp EXCEPT !.op = op, !.result = r.result, !.table = table_name, !.fate = fate,
               !.emitted = r.emitted, !.committed = r.committed,
               !.returns_rows = returns_rows, !.outcome = r.outcome]

\* DatabaseManager.execute_sql(sql)
ExecuteSql(sql, fate) ==
  LET r == Statement(engine \in Reachable /\ DbAcceptsSql(engine, sql),
                     SqlReturnsRows(sql), fate)
  IN [op |-> StatementOp("execute_sql", sql.table, fate, SqlReturnsRows(sql), r),
      db |-> IF r.committed THEN DbAfterSql(engine, sql) ELSE db]

execute_sql(sql, fate) ==
  /\ last_op' = ExecuteSql(sql, fate).op
  /\ db' = ExecuteSql(sql, fate).db
  /\ etl_run' = NoRun
  /\ UNCHANGED connVars
  /\ UNCHANGED uiVars
  /\ UNCHANGED etlVars
  /\ UNCHANGED formVars

\* Variant: the database adds the column again when the table has it.
DbAcceptsAddColumnAgain(d, table_name, column_name, nullable) ==
  /\ table_name \in TableNames
  /\ db[d][table_name].exists
  /\ nullable \/ db[d][table_name].rows = 0

\* The database takes ALTER TABLE t ADD COLUMN c when it has t and t has no
\* column c; NOT NULL without a default only for a table without rows.
DbAcceptsAddColumn(d, table_name, column_name, nullable) ==
  /\ table_name \in TableNames
  /\ db[d][table_name].exists
  /\ column_name \notin SeqToSet(db[d][table_name].columns)
  /\ nullable \/ db[d][table_name].rows = 0

\* DatabaseManager.add_column(table_name, column_name, column_type, nullable)
AddColumn(table_name, column_name, nullable, fate) ==
  LET r == Statement(engine \in Reachable
                       /\ DbAcceptsAddColumn(engine, table_name, column_name, nullable),
                     FALSE, fate)
  IN [op |-> [StatementOp("add_column", table_name, fate, FALSE, r)
                EXCEPT !.columns = <<column_name>>],
      db |-> IF r.committed
             THEN [db EXCEPT ![engine][table_name].columns = Append(@, column_name)]
             ELSE db]


\* DatabaseManager.truncate_table(table_name)
TruncateTable(table_name, fate) ==
  LET r == Statement(engine \in Reachable /\ table_name \in TableNames
                       /\ db[engine][table_name].exists, FALSE, fate)
  IN [op |-> StatementOp("truncate_table", table_name, fate, FALSE, r),
      db |-> IF r.committed THEN [db EXCEPT ![engine][table_name].rows = 0] ELSE db]


\* DatabaseManager.drop_table(table_name); self.metadata is not touched
DropTable(table_name, fate) ==
  LET r == Statement(engine \in Reachable /\ table_name \in TableNames
                       /\ db[engine][table_name].exists, FALSE, fate)
  IN [op |-> StatementOp("drop_table", table_name, fate, FALSE, r),
      db |-> IF r.committed THEN [db EXCEPT ![engine][table_name] = NoTable] ELSE db]

drop_table(table_name, fate) ==
  /\ last_op' = DropTable(table_name, fate).op
  /\ db' = DropTable(table_name, fate).db
  /\ etl_run' = NoRun
  /\ UNCHANGED connVars
  /\ UNCHANGED uiVars
  /\ UNCHANGED etlVars
  /\ UNCHANGED formVars

\* DatabaseManager.insert_data(table_name, data)
InsertData(table_name, data, fate) ==
  [op |-> [NoOp EXCEPT !.op = "insert_data", !.table = table_name, !.fate = fate,
                       !.result = IF fate = "ok" THEN "ok"
                                  ELSE IF fate = "sqlerror" THEN "false" ELSE "raise",
                       !.emitted = (fate = "ok"), !.committed = (fate = "ok")],
   db |-> IF fate = "ok" THEN ToSqlAppend(engine, table_name, data) ELSE db]


\* ----------------------------------------------------- ETLApp, the handlers
\* ETLApp.load_csv_file with a file chosen in the dialog
load_csv_file(df) ==
  /\ source_data' = df
  /\ etl_run' = NoRun
  /\ last_op' = NoOp
  /\ UNCHANGED db
  /\ UNCHANGED <<mappings_table, scd2_checkbox, scd2_start_date, scd2_end_date,
                 scd2_current_flag>>
  /\ UNCHANGED connVars
  /\ UNCHANGED uiVars
  /\ UNCHANGED formVars

\* ETLApp.remove_duplicates
remove_duplicates ==
  /\ source_data.loaded
  /\ source_data' = [source_data EXCEPT !.rows = DropDuplicates(source_data.rows)]
  /\ etl_run' = NoRun
  /\ last_op' = NoOp
  /\ UNCHANGED db
  /\ UNCHANGED <<mappings_table, scd2_checkbox, scd2_start_date, scd2_end_date,
                 scd2_current_flag>>
  /\ UNCHANGED connVars
  /\ UNCHANGED uiVars
  /\ UNCHANGED formVars

\* Variant: the loop over the rows of the mapping table is missing.
AlreadyMappedNever(tbl, source_field) == FALSE

\* "Check if mapping already exists": some row carries the source field
AlreadyMapped(tbl, source_field) ==
  \E row \in 1..Len(tbl) : tbl[row].source = source_field

\* ETLApp.add_field_mapping with the current items of the two field lists
add_field_mapping(source_field, target_field) ==
  /\ source_field \in SeqToSet(source_data.columns)
  /\ target_field \in SeqToSet(target_fields_list)
  /\ Len(mappings_table) < MaxMappings
  /\ mappings_table' =
       IF AlreadyMapped(mappings_table, source_field)
       THEN mappings_table
       ELSE Append(mappings_table, [source |-> source_field, target |-> target_field])
  /\ etl_run' = NoRun
  /\ last_op' = NoOp
  /\ UNCHANGED db
  /\ UNCHANGED <<source_data, scd2_checkbox, scd2_start_date, scd2_end_date,
                 scd2_current_flag>>
  /\ UNCHANGED connVars
  /\ UNCHANGED uiVars
  /\ UNCHANGED formVars

\* The cells of mappings_table are plain QTableWidgetItems in a table whose
\* edit triggers are never switched off: the user can retype any cell.
edit_mapping_source(row, text) ==
  /\ row \in 1..Len(mappings_table)
  /\ mappings_table[row].source # text
  /\ mappings_table' = [mappings_table EXCEPT ![row].source = text]
  /\ etl_run' = NoRun
  /\ last_op' = NoOp
  /\ UNCHANGED db
  /\ UNCHANGED <<source_data, scd2_checkbox, scd2_start_date, scd2_end_date,
                 scd2_current_flag>>
  /\ UNCHANGED connVars
  /\ UNCHANGED uiVars
  /\ UNCHANGED formVars

edit_mapping_target(row, text) ==
  /\ row \in 1..Len(mappings_table)
  /\ mappings_table[row].target # text
  /\ mappings_table' = [mappings_table EXCEPT ![row].target = text]
  /\ etl_run' = NoRun
  /\ last_op' = NoOp
  /\ UNCHANGED db
  /\ UNCHANGED <<source_data, scd2_checkbox, scd2_start_date, scd2_end_date,
                 scd2_current_flag>>
  /\ UNCHANGED connVars
  /\ UNCHANGED uiVars
  /\ UNCHANGED formVars

\* The SCD2 widgets of the field-mapping tab
toggle_scd2_checkbox ==
  /\ scd2_checkbox' = ~scd2_checkbox
  /\ etl_run' = NoRun
  /\ last_op' = NoOp
  /\ UNCHANGED db
  /\ UNCHANGED <<source_data, mappings_table, scd2_start_date, scd2_end_date,
                 scd2_current_flag>>
  /\ UNCHANGED connVars
  /\ UNCHANGED uiVars
  /\ UNCHANGED formVars

edit_scd2_start_date(text) ==
  /\ text # scd2_start_date
  /\ scd2_start_date' = text
  /\ etl_run' = NoRun
  /\ last_op' = NoOp
  /\ UNCHANGED db
  /\ UNCHANGED <<source_data, mappings_table, scd2_checkbox, scd2_end_date,
                 scd2_current_flag>>
  /\ UNCHANGED connVars
  /\ UNCHANGED uiVars
  /\ UNCHANGED formVars

edit_scd2_end_date(text) ==
  /\ text # scd2_end_date
  /\ scd2_end_date' = text
  /\ etl_run' = NoRun
  /\ last_op' = NoOp
  /\ UNCHANGED db
  /\ UNCHANGED <<source_data, mappings_table, scd2_checkbox, scd2_start_date,
                 scd2_current_flag>>
  /\ UNCHANGED connVars
  /\ UNCHANGED uiVars
  /\ UNCHANGED formVars

edit_scd2_current_flag(text) ==
  /\ text # scd2_current_flag
  /\ scd2_current_flag' = text
  /\ etl_run' = NoRun
  /\ last_op' = NoOp
  /\ UNCHANGED db
  /\ UNCHANGED <<source_data, mappings_table, scd2_checkbox, scd2_start_date,
                 scd2_end_date>>
  /\ UNCHANGED connVars
  /\ UNCHANGED uiVars
  /\ UNCHANGED formVars

\* Variant: etl_data is the source frame itself, no copy is taken.
SourceAfterRunInPlace(source, etl_data) == etl_data

\* What self.source_data holds once rename(inplace=True) and the SCD2
\* assignments have been applied to etl_data: etl_data comes from
\* self.source_data[[...]].copy(), a frame of its own, so the source frame
\* is as it was.
SourceAfterRun(source, etl_data) == source

\* ETLApp.run_etl_process; now is datetime.now(), fate what insert_data does
run_etl_process(now, fate) ==
  /\ fate \in InsertFates(engine)
  /\ IF ~source_data.loaded \/ TargetTable = "" \/ mappings_table = <<>>
     THEN \* one of the three warnings, then return
          /\ etl_run' = [NoRun EXCEPT !.outcome = "warning",
                                      !.source_before = source_data]
          /\ UNCHANGED <<db, source_data>>
     ELSE LET sel == MapColumns(source_data, mappings_table) IN
          IF sel.raised
          THEN \* KeyError, caught by the handler's except
               /\ etl_run' = [NoRun EXCEPT !.outcome = "exception",
                                           !.source_before = source_data]
               /\ UNCHANGED <<db, source_data>>
          ELSE LET etl_data == AddScd2Fields(sel.df, scd2_checkbox, scd2_start_date,
                                             scd2_end_date, scd2_current_flag, now)
               IN /\ fate = "ok" => ToSqlAccepts(engine, TargetTable, etl_data)
                  /\ etl_run' = [outcome |-> IF fate = "ok" THEN "success"
                                             ELSE IF fate = "sqlerror" THEN "failed"
                                             ELSE "exception",
                                 mapped_ok |-> TRUE,
                                 mapped |-> sel.df,
                                 insert_called |-> TRUE,
                                 etl_data |-> etl_data,
                                 current_time |-> IF scd2_checkbox THEN now ELSE 0,
                                 rows_before |-> DbRows(engine, TargetTable),
                                 source_before |-> source_data]
                  /\ source_data' = SourceAfterRun(source_data, etl_data)
                  /\ db' = IF fate = "ok"
                           THEN ToSqlAppend(engine, TargetTable, etl_data)
                           ELSE db
  /\ last_op' = NoOp
  /\ UNCHANGED <<mappings_table, scd2_checkbox, scd2_start_date, scd2_end_date,
                 scd2_current_flag>>
  /\ UNCHANGED connVars
  /\ UNCHANGED uiVars
  /\ UNCHANGED formVars

\* ------------------------------- ETLApp, existing tables and SQL console
\* The table picked in the list of existing tables
SelectedTable ==
  IF existing_tables_list.current = 0 THEN ""
  ELSE existing_tables_list.items[existing_tables_list.current]

\* A slot that returned after a warning, or without calling the manager
Returned(handler) == [NoOp EXCEPT !.handler = handler]

\* The user clicks a table in the list of existing tables
select_existing_table(i) ==
  /\ i \in 1..Len(existing_tables_list.items)
  /\ i # existing_tables_list.current
  /\ existing_tables_list' = [existing_tables_list EXCEPT !.current = i]
  /\ UNCHANGED <<target_table_combo, target_fields_list, new_column_name>>
  /\ etl_run' = NoRun
  /\ last_op' = NoOp
  /\ UNCHANGED db
  /\ UNCHANGED connVars
  /\ UNCHANGED etlVars
  /\ UNCHANGED formVars

\* The user types the name of the column to add
edit_new_column_name(text) ==
  /\ text # new_column_name
  /\ new_column_name' = text
  /\ UNCHANGED <<target_table_combo, target_fields_list, existing_tables_list>>
  /\ etl_run' = NoRun
  /\ last_op' = NoOp
  /\ UNCHANGED db
  /\ UNCHANGED connVars
  /\ UNCHANGED etlVars
  /\ UNCHANGED formVars

\* Variant: the handler does not look at the columns of the table.
ColumnExistsNever(columns, column_name) == FALSE

\* `column_name in columns` of add_column_to_existing_table
ColumnExists(columns, column_name) == column_name \in SeqToSet(columns)

\* ETLApp.add_column_to_existing_table
add_column_to_existing_table(fate) ==
  LET handler == "add_column_to_existing_table"
      r == AddColumn(SelectedTable, new_column_name, TRUE, fate)
  IN
  /\ IF SelectedTable = "" \/ new_column_name = ""
     THEN \* "Please select a table" / "Please enter a column name"
          /\ last_op' = Returned(handler)
          /\ UNCHANGED <<db, uiVars>>
     ELSE IF InspectRaises(engine)
     THEN \* get_table_columns raises out of the slot
          /\ last_op' = [Returned(handler) EXCEPT !.result = "raise"]
          /\ UNCHANGED <<db, uiVars>>
     ELSE IF ColumnExists(get_table_columns(engine, SelectedTable), new_column_name)
     THEN \* "Column ... already exists in table ..."
          /\ last_op' = Returned(handler)
          /\ UNCHANGED <<db, uiVars>>
     ELSE /\ last_op' = [r.op EXCEPT !.handler = handler]
          /\ db' = r.db
          /\ IF r.op.result = "ok"
             THEN new_column_name' = "" /\ update_table_lists(r.db, engine)
             ELSE UNCHANGED uiVars
  /\ etl_run' = NoRun
  /\ UNCHANGED connVars
  /\ UNCHANGED etlVars
  /\ UNCHANGED formVars

\* ETLApp.truncate_selected_table; reply is the answer to the question box
truncate_selected_table(reply, fate) ==
  LET handler == "truncate_selected_table"
      r == TruncateTable(SelectedTable, fate)
  IN
  /\ IF SelectedTable = "" \/ reply # "Yes"
     THEN /\ last_op' = Returned(handler)
          /\ UNCHANGED db
     ELSE /\ last_op' = [r.op EXCEPT !.handler = handler]
          /\ db' = r.db
  /\ etl_run' = NoRun
  /\ UNCHANGED uiVars
  /\ UNCHANGED connVars
  /\ UNCHANGED etlVars
  /\ UNCHANGED formVars

\* ETLApp.drop_selected_table
drop_selected_table(reply, fate) ==
  LET handler == "drop_selected_table"
      r == DropTable(SelectedTable, fate)
  IN
  /\ IF SelectedTable = "" \/ reply # "Yes"
     THEN /\ last_op' = Returned(handler)
          /\ UNCHANGED <<db, uiVars>>
     ELSE /\ last_op' = [r.op EXCEPT !.handler = handler]
          /\ db' = r.db
          /\ IF r.op.result = "ok"
             THEN update_table_lists(r.db, engine) /\ UNCHANGED new_column_name
             ELSE UNCHANGED uiVars
  /\ etl_run' = NoRun
  /\ UNCHANGED connVars
  /\ UNCHANGED etlVars
  /\ UNCHANGED formVars

\* ETLApp.execute_query; query is the text of the editor, NoQuery when empty
NoQuery == Sql("", "")
execute_query(query, fate) ==
  LET handler == "execute_query"
      r == ExecuteSql(query, fate)
  IN
  /\ IF query = NoQuery
     THEN \* "Please enter a SQL query"
          /\ last_op' = Returned(handler)
          /\ UNCHANGED db
     ELSE /\ last_op' = [r.op EXCEPT !.handler = handler]
          /\ db' = r.db
  /\ etl_run' = NoRun
  /\ UNCHANGED uiVars
  /\ UNCHANGED connVars
  /\ UNCHANGED etlVars
  /\ UNCHANGED formVars

\* ------------------------------------------ ETLApp, the table-creation form
\* A row of columns_table: name and type are the texts of the first two
\* cells ("" for a cell without item or text), primary_key and nullable the
\* check state of the items in the last two cells, NoItem where item(row, col)
\* is None.
NoItem == "None"
ColumnTexts == {"id"}
TypeItems == {"Integer"}

\* A row as init_table_creation_tab and add_column_row make it
CheckboxRow ==
  [name |-> "", type |-> "", primary_key |-> "Unchecked", nullable |-> "Checked"]

\* A row after clearContents(): every item is gone
ClearedRow ==
  [name |-> "", type |-> "", primary_key |-> NoItem, nullable |-> NoItem]

\* The user types into the table-name field
edit_table_name(text) ==
  /\ text # table_name_input
  /\ table_name_input' = text
  /\ UNCHANGED <<columns_table, constraints_table>>
  /\ etl_run' = NoRun
  /\ last_op' = NoOp
  /\ UNCHANGED db
  /\ UNCHANGED connVars
  /\ UNCHANGED uiVars
  /\ UNCHANGED etlVars

\* ETLApp.add_column_row
add_column_row ==
  /\ Len(columns_table) < MaxColumnRows
  /\ columns_table' = Append(columns_table, CheckboxRow)
  /\ UNCHANGED <<table_name_input, constraints_table>>
  /\ etl_run' = NoRun
  /\ last_op' = NoOp
  /\ UNCHANGED db
  /\ UNCHANGED connVars
  /\ UNCHANGED uiVars
  /\ UNCHANGED etlVars

\* The user edits the Column Name cell of a row; the table makes the item
edit_column_name(row, text) ==
  /\ row \in 1..Len(columns_table)
  /\ text # columns_table[row].name
  /\ columns_table' = [columns_table EXCEPT ![row].name = text]
  /\ UNCHANGED <<table_name_input, constraints_table>>
  /\ etl_run' = NoRun
  /\ last_op' = NoOp
  /\ UNCHANGED db
  /\ UNCHANGED connVars
  /\ UNCHANGED uiVars
  /\ UNCHANGED etlVars

\* The user picks a type in the Data Type cell of a row (ComboBoxDelegate)
edit_column_type(row, text) ==
  /\ row \in 1..Len(columns_table)
  /\ text # columns_table[row].type
  /\ columns_table' = [columns_table EXCEPT ![row].type = text]
  /\ UNCHANGED <<table_name_input, constraints_table>>
  /\ etl_run' = NoRun
  /\ last_op' = NoOp
  /\ UNCHANGED db
  /\ UNCHANGED connVars
  /\ UNCHANGED uiVars
  /\ UNCHANGED etlVars

\* The user clicks the Primary Key checkbox of a row that has one
toggle_primary_key(row) ==
  /\ row \in 1..Len(columns_table)
  /\ columns_table[row].primary_key # NoItem
  /\ columns_table' =
       [columns_table EXCEPT ![row].primary_key =
          IF @ = "Checked" THEN "Unchecked" ELSE "Checked"]
  /\ UNCHANGED <<table_name_input, constraints_table>>
  /\ etl_run' = NoRun
  /\ last_op' = NoOp
  /\ UNCHANGED db
  /\ UNCHANGED connVars
  /\ UNCHANGED uiVars
  /\ UNCHANGED etlVars

\* A row of constraints_table: type is the text of the Type cell, source the
\* items of the source-column combo, target_table the target-table combo,
\* target_column the items of the target-column combo; widgets says whether
\* the two target combos were set; row is the row number the slot connected
\* to the target-table combo was given (counted from 1).
ConstraintRow(source, tables, columns, widgets, row) ==
  [type |-> "foreign_key", source |-> source,
   target_table |-> [items |-> tables, current |-> IF tables = <<>> THEN 0 ELSE 1],
   target_column |-> columns, widgets |-> widgets, row |-> row]

\* currentText() of a combo box whose first item is current
FirstText(items) == IF items = <<>> THEN "" ELSE items[1]
CurrentText(combo) == IF combo.current = 0 THEN "" ELSE combo.items[combo.current]

\* ETLApp.add_foreign_key_constraint. The source combo takes the names the
\* columns table holds now, the target-table combo the tables the database
\* has now; the slot connected to the target-table combo keeps the number
\* the row has now. get_tables raising leaves a row with the type item and
\* the source combo only.
add_foreign_key_constraint ==
  LET handler == "add_foreign_key_constraint"
      row_count == Len(constraints_table) + 1
      source == ColumnNames(SelectSeq(columns_table, LAMBDA r : r.name # ""))
      tables == get_tables
  IN
  /\ Len(constraints_table) < MaxConstraintRows
  /\ IF InspectRaises(engine)
     THEN /\ constraints_table' =
               Append(constraints_table,
                      ConstraintRow(source, <<>>, <<>>, FALSE, row_count))
          /\ last_op' = [Returned(handler) EXCEPT !.result = "raise"]
     ELSE /\ constraints_table' =
               Append(constraints_table,
                      ConstraintRow(source, tables,
                                    IF tables = <<>> THEN <<>>
                                    ELSE get_table_columns(engine, tables[1]),
                                    TRUE, row_count))
          /\ last_op' = Returned(handler)
  /\ UNCHANGED <<table_name_input, columns_table>>
  /\ etl_run' = NoRun
  /\ UNCHANGED db
  /\ UNCHANGED connVars
  /\ UNCHANGED uiVars
  /\ UNCHANGED etlVars

\* ETLApp.update_target_column_combo(table_name, row) on the rows tbl:
\* cellWidget(row, 3) is the combo of the row that has this number now, and
\* None when there is no such row or the row has no combo there.
update_target_column_combo(tbl, table_name, row) ==
  IF row \in 1..Len(tbl) /\ tbl[row].widgets
  THEN [tbl EXCEPT ![row].target_column =
          IF InspectRaises(engine) THEN <<>>
          ELSE get_table_columns(engine, table_name)]
  ELSE tbl

\* The user picks item k in the target-table combo of the row at position
\* i: currentTextChanged calls the slot with the row number it was given.
change_target_table(i, k) ==
  /\ i \in 1..Len(constraints_table)
  /\ constraints_table[i].widgets
  /\ k \in 1..Len(constraints_table[i].target_table.items)
  /\ k # constraints_table[i].target_table.current
  /\ constraints_table' =
       update_target_column_combo(
         [constraints_table EXCEPT ![i].target_table.current = k],
         constraints_table[i].target_table.items[k],
         constraints_table[i].row)
  /\ last_op' = IF InspectRaises(engine)
                THEN [Returned("update_target_column_combo") EXCEPT !.result = "raise"]
                ELSE Returned("update_target_column_combo")
  /\ UNCHANGED <<table_name_input, columns_table>>
  /\ etl_run' = NoRun
  /\ UNCHANGED db
  /\ UNCHANGED connVars
  /\ UNCHANGED uiVars
  /\ UNCHANGED etlVars

\* ETLApp.remove_constraint with the rows at the positions selected_rows
\* selected: the rows are removed, the rows below move up.
remove_constraint(selected_rows) ==
  /\ selected_rows # {}
  /\ selected_rows \subseteq 1..Len(constraints_table)
  /\ constraints_table' =
       LET kept == SelectSeq([i \in 1..Len(constraints_table) |-> i],
                             LAMBDA i : i \notin selected_rows)
       IN [j \in 1..Len(kept) |-> constraints_table[kept[j]]]
  /\ last_op' = Returned("remove_constraint")
  /\ UNCHANGED <<table_name_input, columns_table>>
  /\ etl_run' = NoRun
  /\ UNCHANGED db
  /\ UNCHANGED connVars
  /\ UNCHANGED uiVars
  /\ UNCHANGED etlVars

\* The column loop of ETLApp.create_table reads a row when name and type
\* are filled in
RowIsRead(r) == r.name # "" /\ r.type # ""

\* pk_check.checkState() / nullable_check.checkState() on None
ReadRaises(tbl) ==
  \E i \in 1..Len(tbl) :
    RowIsRead(tbl[i]) /\ (tbl[i].primary_key = NoItem \/ tbl[i].nullable = NoItem)

\* The columns list ETLApp.create_table collects
FormColumns(tbl) ==
  LET filled == SelectSeq(tbl, RowIsRead) IN
  [i \in 1..Len(filled) |->
     [name |-> filled[i].name, type |-> filled[i].type,
      primary_key |-> (filled[i].primary_key = "Checked"),
      nullable |-> (filled[i].nullable = "Checked")]]

\* The constraints list ETLApp.create_table collects
FormConstraints(tbl) ==
  LET complete == SelectSeq(tbl, LAMBDA r : r.widgets) IN
  [i \in 1..Len(complete) |->
     Constraint(complete[i].type, FirstText(complete[i].source),
                CurrentText(complete[i].target_table),
                FirstText(complete[i].target_column))]

\* ETLApp.create_table, the slot of the Create Table button
ETLApp_create_table(fate) ==
  LET handler == "create_table"
      columns == FormColumns(columns_table)
      constraints == FormConstraints(constraints_table)
      r == CreateTable(table_name_input, columns, constraints, fate)
  IN
  /\ IF table_name_input = ""
     THEN \* "Please enter a table name"
          /\ last_op' = Returned(handler)
          /\ UNCHANGED <<metadata, db, uiVars, formVars>>
     ELSE IF ReadRaises(columns_table)
     THEN \* AttributeError out of the slot
          /\ last_op' = [Returned(handler) EXCEPT !.result = "raise"]
          /\ UNCHANGED <<metadata, db, uiVars, formVars>>
     ELSE IF columns = <<>>
     THEN \* "Please add at least one column"
          /\ last_op' = Returned(handler)
          /\ UNCHANGED <<metadata, db, uiVars, formVars>>
     ELSE /\ metadata' = r.metadata
          /\ db' = r.db
          /\ last_op' = [NoOp EXCEPT !.handler = handler, !.op = "create_table",
                                     !.result = r.result, !.table = table_name_input,
                                     !.fate = fate, !.emitted = r.emitted,
                                     !.committed = (r.result = "ok"),
                                     !.columns = columns, !.constraints = constraints,
                                     !.pk = PrimaryKeyCols(columns),
                                     !.fks = ForeignKeyEntries(constraints)]
          /\ IF r.result = "ok"
             THEN /\ update_table_lists(r.db, engine)
                  /\ UNCHANGED new_column_name
                  /\ table_name_input' = ""
                  /\ columns_table' = <<ClearedRow>>
                  /\ constraints_table' = <<>>
             ELSE UNCHANGED <<uiVars, formVars>>
  /\ etl_run' = NoRun
  /\ UNCHANGED <<engine, last_connect, connected_once>>
  /\ UNCHANGED etlVars

\* ---------------------------------------------------------- specifications
Init ==
  /\ engine = NoEngine
  /\ metadata = {}
  /\ last_connect = NoConnect
  /\ target_table_combo = [items |-> <<>>, current |-> 0]
  /\ target_fields_list = <<>>
  /\ existing_tables_list = [items |-> <<>>, current |-> 0]
  /\ new_column_name = ""
  /\ source_data = None
  /\ mappings_table = <<>>
  /\ scd2_checkbox = FALSE
  /\ scd2_start_date = "valid_from"
  /\ scd2_end_date = "valid_to"
  /\ scd2_current_flag = "is_current"
  /\ etl_run = NoRun
  /\ db = InitialDb
  /\ connected_once = FALSE
  /\ last_op = NoOp
  /\ table_name_input = ""
  /\ columns_table = <<CheckboxRow>>
  /\ constraints_table = <<>>

\* The field-mapping tab, after connecting to the database that holds the
\* target table; the target is the table the combo box shows first.
NextEtl ==
  \/ connect_to_db("PostgreSQL", "dbA", Len(DbTables("dbA")))
  \/ \E df \in CsvFiles : load_csv_file(df)
  \/ remove_duplicates
  \/ \E s \in SourceFields, t \in TargetNames : add_field_mapping(s, t)
  \/ \E row \in 1..MaxMappings, text \in SourceFields : edit_mapping_source(row, text)
  \/ \E row \in 1..MaxMappings, text \in TargetNames : edit_mapping_target(row, text)
  \/ toggle_scd2_checkbox
  \/ edit_scd2_start_date("valid_to")
  \/ \E text \in ScdTexts : edit_scd2_end_date(text)
  \/ \E text \in ScdTexts : edit_scd2_current_flag(text)
  \/ \E now \in Times, fate \in {"ok", "sqlerror", "raise"} : run_etl_process(now, fate)

SpecEtl == Init /\ [][NextEtl]_vars

\* The field-mapping tab used through its buttons only: files are loaded
\* and mappings added, no cell of the mapping table is retyped.
NextMap ==
  \/ connect_to_db("PostgreSQL", "dbA", Len(DbTables("dbA")))
  \/ \E i \in 1..Len(target_table_combo.items) : update_target_fields(i)
  \/ \E df \in CsvFiles : load_csv_file(df)
  \/ remove_duplicates
  \/ \E s \in SourceFields, t \in TargetNames : add_field_mapping(s, t)

SpecMap == Init /\ [][NextMap]_vars

\* The manager and the connection tab: the form offers the two dialects of
\* db_type_combo, a direct caller of DatabaseManager.connect may pass any.
NextConn ==
  \/ \E d \in ComboDbTypes, t \in ConnTargets :
       \E n \in ReflectProgress(t) : connect_to_db(d, t, n)
  \/ \E d \in DbTypes, t \in ConnTargets :
       \E n \in ReflectProgress(t) : manager_connect(d, t, n)
  \/ \E i \in 1..Len(target_table_combo.items) : update_target_fields(i)

SpecConn == Init /\ [][NextConn]_vars

\* The manager called directly, against one database and a host that is
\* down: the table definitions, statements and frames it is handed.
CreateDefs ==
  {[columns |-> <<Col("id", TRUE), Col("ref", TRUE)>>, constraints |-> <<>>],
   [columns |-> <<Col("id", TRUE), Col("ref", FALSE)>>,
    constraints |-> <<Constraint("foreign_key", "ref", "products", "id")>>],
   [columns |-> <<Col("id", FALSE), Col("ref", FALSE)>>,
    constraints |-> <<Constraint("unique", "ref", "products", "id")>>]}
SqlStatements ==
  {Sql("select", "orders"), Sql("create", "products"), Sql("drop", "products"),
   Sql("syntax", "")}

NextSchema ==
  \/ \E t \in {"dbA", "down"} :
       \E n \in ReflectProgress(t) : manager_connect("PostgreSQL", t, n)
  \/ \E table_name \in {"orders", "products", "order_items"}, d \in CreateDefs,
        fate \in {"db", "sqlerror"} :
       create_table(table_name, d.columns, d.constraints, fate)
  \/ \E sql \in SqlStatements, fate \in Fates : execute_sql(sql, fate)
  \/ \E fate \in Fates : drop_table("orders", fate)

SpecSchema == Init /\ [][NextSchema]_vars

\* The window: connection tab, list of existing tables and SQL console
NextApp ==
  \/ \E t \in {"dbA", "down"} :
       \E n \in ReflectProgress(t) : connect_to_db("PostgreSQL", t, n)
  \/ \E i \in 1..Len(existing_tables_list.items) : select_existing_table(i)
  \/ \E text \in {"name", "note"} : edit_new_column_name(text)
  \/ \E fate \in Fates : add_column_to_existing_table(fate)
  \/ \E reply \in {"Yes", "No"}, fate \in Fates : truncate_selected_table(reply, fate)
  \/ \E reply \in {"Yes", "No"}, fate \in Fates : drop_selected_table(reply, fate)
  \/ \E query \in {NoQuery, Sql("select", "orders"), Sql("drop", "orders")},
        fate \in Fates : execute_query(query, fate)

SpecApp == Init /\ [][NextApp]_vars

\* The table-creation tab: name field, column rows and the Create button
NextForm ==
  \/ connect_to_db("PostgreSQL", "dbA", Len(DbTables("dbA")))
  \/ \E text \in {"", "order_items", "products"} : edit_table_name(text)
  \/ add_column_row
  \/ \E row \in 1..Len(columns_table), text \in {""} \cup ColumnTexts :
       edit_column_name(row, text)
  \/ \E row \in 1..Len(columns_table), text \in TypeItems : edit_column_type(row, text)
  \/ \E row \in 1..Len(columns_table) : toggle_primary_key(row)
  \/ \E fate \in {"db", "sqlerror"} : ETLApp_create_table(fate)

SpecForm == Init /\ [][NextForm]_vars

\* The table-creation tab: the constraint rows
NextFk ==
  \/ connect_to_db("PostgreSQL", "dbA", Len(DbTables("dbA")))
  \/ \E text \in {""} \cup ColumnTexts : edit_column_name(1, text)
  \/ add_foreign_key_constraint
  \/ \E i \in 1..Len(constraints_table) :
       \E k \in 1..Len(constraints_table[i].target_table.items) :
         change_target_table(i, k)
  \/ \E selected_rows \in SUBSET (1..Len(constraints_table)) :
       remove_constraint(selected_rows)

SpecFk == Init /\ [][NextFk]_vars

\* ------------------------------------------------------------------ claims
\* A run that got past the three warnings
RunStarted == etl_run.outcome \notin {"none", "warning"}

Sources(tbl) == {tbl[i].source : i \in 1..Len(tbl)}
HasDuplicateSource(tbl) ==
  \E i, j \in 1..Len(tbl) : i # j /\ tbl[i].source = tbl[j].source
HasUnknownSource(tbl, df) == \E i \in 1..Len(tbl) : tbl[i].source \notin SeqToSet(df.columns)
ValidMapping == ~HasDuplicateSource(mappings_table) /\ ~HasUnknownSource(mappings_table, source_data)

\* Every column of df that carries the label holds the cell in every row,
\* and there is such a column.
FieldIs(df, label, cell) ==
  /\ label \in SeqToSet(df.columns)
  /\ \A r \in 1..Len(df.rows) : \A i \in 1..Len(df.columns) :
       df.columns[i] = label => df.rows[r][i] = cell

\* C1: for a mapping with pairwise distinct source fields that are all
\* columns of the source, the mapped frame has the rows of the source: as
\* many, in the same order, and in each row the cell of the i-th mapping pair
\* is the source's cell under that pair's source field.
C1_MappingKeepsRows ==
  (RunStarted /\ ValidMapping) =>
    /\ etl_run.mapped_ok
    /\ Len(etl_run.mapped.rows) = Len(source_data.rows)
    /\ \A r \in 1..Len(source_data.rows) :
         /\ Len(etl_run.mapped.rows[r]) = Len(mappings_table)
         /\ \A i \in 1..Len(mappings_table) :
              etl_run.mapped.rows[r][i] =
                source_data.rows[r][ColIndex(source_data, mappings_table[i].source)]

C1_Witness ==
  /\ RunStarted /\ ValidMapping /\ etl_run.mapped_ok
  /\ Len(source_data.rows) = 2 /\ source_data.rows[1] # source_data.rows[2]
  /\ Len(mappings_table) = 2
  /\ mappings_table[1].source = source_data.columns[2]

\* C2: for a valid mapping the columns of the mapped frame are the target
\* fields of the mapping pairs, in the order of the pairs.
C2_ColumnsAreTargets ==
  (RunStarted /\ ValidMapping) =>
    /\ etl_run.mapped_ok
    /\ etl_run.mapped.columns =
         [i \in 1..Len(mappings_table) |-> mappings_table[i].target]

C2_Witness ==
  /\ RunStarted /\ ValidMapping /\ etl_run.mapped_ok
  /\ Len(source_data.columns) = 2 /\ Len(mappings_table) = 1
  /\ mappings_table[1].source = source_data.columns[2]
  /\ etl_run.mapped.columns = <<mappings_table[1].target>>

\* C3 (as claimed): a run whose mapping holds the same source field twice
\* fails, and produces and inserts no frame.
C3_DuplicateSourceRejected ==
  (RunStarted /\ HasDuplicateSource(mappings_table)) =>
    /\ etl_run.outcome = "exception"
    /\ ~etl_run.mapped_ok
    /\ ~etl_run.insert_called

\* C4: a run whose mapping names a source field that is no column of the
\* source fails with the error outcome and does not call insert_data.
C4_UnknownSourceFails ==
  (RunStarted /\ HasUnknownSource(mappings_table, source_data)) =>
    /\ etl_run.outcome = "exception"
    /\ ~etl_run.insert_called

C4_Witness ==
  /\ RunStarted
  /\ Len(mappings_table) = 2
  /\ mappings_table[1].source \in SeqToSet(source_data.columns)
  /\ mappings_table[2].source \notin SeqToSet(source_data.columns)
  /\ etl_run.outcome = "exception"

ScdNames == {scd2_start_date, scd2_end_date, scd2_current_flag}
ScdNamesFresh ==
  /\ Cardinality(ScdNames) = 3
  /\ ScdNames \cap SeqToSet(etl_run.mapped.columns) = {}
Scd2Run == etl_run.insert_called /\ scd2_checkbox

\* C5 (as claimed): with SCD2 enabled the frame handed to insert_data has
\* three columns more than the mapped frame, named as configured, whatever
\* the three names and the mapping are.
C5_AlwaysThreeColumns ==
  Scd2Run =>
    /\ Len(etl_run.etl_data.columns) = Len(etl_run.mapped.columns) + 3
    /\ SubSeq(etl_run.etl_data.columns, Len(etl_run.mapped.columns) + 1,
              Len(etl_run.etl_data.columns))
         = <<scd2_start_date, scd2_end_date, scd2_current_flag>>

\* C5 (amended): with SCD2 enabled the mapped columns stay in place, every
\* configured name is a column, and the number of added columns is the number
\* of distinct configured names that are no mapped target field: three, in
\* the order start, end, flag, when the names are pairwise distinct and none
\* is a mapped target field, fewer otherwise.
C5_ThreeColumnsWhenFresh ==
  Scd2Run =>
    LET before == Len(etl_run.mapped.columns)
        after == Len(etl_run.etl_data.columns)
    IN /\ SubSeq(etl_run.etl_data.columns, 1, before) = etl_run.mapped.columns
       /\ ScdNames \subseteq SeqToSet(etl_run.etl_data.columns)
       /\ after = before
                  + Cardinality(ScdNames \ SeqToSet(etl_run.mapped.columns))
       /\ ScdNamesFresh =>
            SubSeq(etl_run.etl_data.columns, before + 1, after)
              = <<scd2_start_date, scd2_end_date, scd2_current_flag>>
       /\ ~ScdNamesFresh => after < before + 3

C5_Witness ==
  /\ Scd2Run /\ ScdNamesFresh
  /\ Len(etl_run.mapped.columns) = 2
  /\ Len(etl_run.etl_data.columns) = 5
  /\ Len(etl_run.etl_data.rows) = 2

\* C6 (as claimed): with SCD2 enabled every row has the load timestamp under
\* the start field, null under the end field and true under the flag field.
C6_ScdValues ==
  Scd2Run =>
    /\ FieldIs(etl_run.etl_data, scd2_start_date, TimeCell(etl_run.current_time))
    /\ FieldIs(etl_run.etl_data, scd2_end_date, NoneCell)
    /\ FieldIs(etl_run.etl_data, scd2_current_flag, TrueCell)

\* C6 (amended): with SCD2 enabled every row has true under the flag field,
\* null under the end field unless the end field is named as the flag field,
\* and the one load timestamp of the run under the start field unless the
\* start field is named as the end or the flag field; so all three hold when
\* the three names are pairwise distinct.
C6_ScdValuesLastWins ==
  Scd2Run =>
    /\ etl_run.current_time \in Times
    /\ FieldIs(etl_run.etl_data, scd2_current_flag, TrueCell)
    /\ scd2_end_date # scd2_current_flag =>
         FieldIs(etl_run.etl_data, scd2_end_date, NoneCell)
    /\ scd2_start_date \notin {scd2_end_date, scd2_current_flag} =>
         FieldIs(etl_run.etl_data, scd2_start_date, TimeCell(etl_run.current_time))

C6_Witness ==
  /\ Scd2Run
  /\ Cardinality(ScdNames) = 3
  /\ Len(etl_run.etl_data.rows) = 2
  /\ etl_run.current_time = MaxTime
  /\ FieldIs(etl_run.etl_data, scd2_start_date, TimeCell(MaxTime))
  /\ FieldIs(etl_run.etl_data, scd2_end_date, NoneCell)

\* C7: with SCD2 disabled the frame handed to insert_data is the mapped
\* frame: one column per mapped source field and no other, the cells those
\* of the source, whatever the three SCD2 names are.
C7_DisabledIsNoOp ==
  (etl_run.insert_called /\ ~scd2_checkbox) =>
    /\ etl_run.etl_data = etl_run.mapped
    /\ Len(etl_run.etl_data.columns) = Cardinality(Sources(mappings_table))
    /\ \A r \in 1..Len(etl_run.etl_data.rows) :
         \A i \in 1..Len(etl_run.etl_data.columns) :
           etl_run.etl_data.rows[r][i].kind = "int"

C7_Witness ==
  /\ etl_run.insert_called /\ ~scd2_checkbox
  /\ Len(etl_run.etl_data.rows) > 0
  /\ scd2_end_date \in SeqToSet(etl_run.etl_data.columns)

\* A step of DatabaseManager.connect
ConnectStep(d, t) == \E n \in ReflectProgress(t) : connect(d, t, n)

\* C8 (as claimed): a connect call that fails leaves the engine and the
\* reflected metadata as they were.
C8_FailedConnectKeepsState ==
  [][\A d \in DbTypes, t \in ConnTargets :
       (ConnectStep(d, t) /\ ~last_connect'.success)
         => (engine' = engine /\ metadata' = metadata)]_vars

\* C9: connect with a dialect other than PostgreSQL and MySQL fails, creates
\* no engine, starts no reflection and leaves the engine as it was.
C9_UnsupportedDialectFailsFast ==
  [][\A d \in DbTypes, t \in ConnTargets :
       (ConnectStep(d, t) /\ d \notin {"PostgreSQL", "MySQL"})
         => /\ last_connect'.called
            /\ ~last_connect'.success
            /\ ~last_connect'.engine_created
            /\ ~last_connect'.reflect_called
            /\ engine' = engine]_vars

C9_Witness ==
  /\ last_connect.called
  /\ last_connect.db_type = "Oracle"
  /\ last_connect.target = "dbB"
  /\ ~last_connect.success
  /\ engine = "dbA"

\* C10 (as claimed): after a successful connect every table definition the
\* manager holds was reflected from the database of the current engine.
C10_StateDescribesCurrentDb ==
  last_connect.success =>
    /\ engine = last_connect.target
    /\ \A m \in metadata : m.origin = engine

\* C11: as long as no connect call has returned success, get_tables and
\* get_table_columns (of any table) return the empty list and do not raise.
C11_NotConnectedListsEmpty ==
  ~connected_once =>
    /\ ~InspectRaises(engine)
    /\ get_tables = <<>>
    /\ \A t \in TableNames : get_table_columns(engine, t) = <<>>

\* C12: no exception leaves a core operation: every call returns (True, ...)
\* or (False, message), also on a manager that never connected.
C12_FailuresAreReturned ==
  last_op.op # "none" => last_op.result \in {"ok", "false"}

\* C13: on a connected manager, a create_table call that returns
\* (False, message) leaves the manager (engine and MetaData) as it was
\* before the call.
C13_FailedCreateKeepsManager ==
  [][(last_connect.success /\ last_op'.op = "create_table"
        /\ last_op'.result = "false")
       => (metadata' = metadata /\ engine' = engine)]_vars

\* C14: create_table of a name that the connected database has a table of
\* returns (False, message) and leaves every table of the database, schema
\* and rows, as it was.
C14_ExistingNameRejected ==
  [][(/\ last_op'.op = "create_table"
      /\ engine \in Reachable
      /\ db[engine][last_op'.table].exists)
       => (last_op'.result = "false" /\ db' = db)]_vars

\* The database, not the MetaData, turned the name down: the table was made
\* through the SQL console after the connect.
C14_Witness ==
  /\ connected_once
  /\ engine \in Reachable
  /\ last_op.op = "create_table"
  /\ last_op.table = "products"
  /\ last_op.fks = <<>>
  /\ last_op.emitted
  /\ last_op.result = "false"
  /\ db[engine]["products"].exists

\* C15: on a connected manager, create_table of a new name with a foreign
\* key succeeds when the database would take the definition (the target
\* table and column exist in it) and the driver does not fail.
C15_FkToExistingTargetSucceeds ==
  [][(/\ last_op'.op = "create_table"
      /\ last_op'.fks # <<>>
      /\ last_op'.fate = "db"
      /\ connected_once
      /\ engine \in Reachable
      /\ last_op'.table \notin MetaNames(metadata)
      /\ DbAcceptsCreate(engine, last_op'.table, last_op'.columns, last_op'.fks))
       => last_op'.result = "ok"]_vars

\* The columns of a definition that carry the primary_key flag
FlaggedColumns(columns) ==
  {c.name : c \in {x \in SeqToSet(columns) : x.primary_key}}

\* C16 as stated: the definition sent has the flagged columns as primary key
\* and one foreign key per entry of the constraints list, entry by entry.
C16_OneFkPerEntry ==
  (last_op.op = "create_table" /\ last_op.emitted) =>
    /\ last_op.pk = FlaggedColumns(last_op.columns)
    /\ Len(last_op.fks) = Len(last_op.constraints)
    /\ \A i \in 1..Len(last_op.constraints) :
         /\ last_op.fks[i].source_column = last_op.constraints[i].source_column
         /\ last_op.fks[i].target_table = last_op.constraints[i].target_table
         /\ last_op.fks[i].target_column = last_op.constraints[i].target_column

\* C16, amended: the definition sent has the flagged columns as primary key
\* and one foreign key per entry whose type is 'foreign_key', in the order
\* of the entries; entries of another type add nothing.
C16_OneFkPerForeignKeyEntry ==
  (last_op.op = "create_table" /\ last_op.emitted) =>
    LET fkRows == {i \in 1..Len(last_op.constraints) :
                     last_op.constraints[i].type = "foreign_key"}
    IN /\ last_op.pk = FlaggedColumns(last_op.columns)
       /\ Len(last_op.fks) = Cardinality(fkRows)
       /\ \A i \in fkRows :
            LET j == Cardinality({k \in fkRows : k <= i}) IN
            /\ last_op.fks[j].source_column = last_op.constraints[i].source_column
            /\ last_op.fks[j].target_table = last_op.constraints[i].target_table
            /\ last_op.fks[j].target_column = last_op.constraints[i].target_column

\* A table with a primary key and a foreign key was created.
C16_Witness ==
  /\ last_op.op = "create_table"
  /\ last_op.result = "ok"
  /\ last_op.pk = {"id"}
  /\ Len(last_op.fks) = 1
  /\ last_op.fks[1].target_table = "products"

\* C17: execute_sql returns (True, message) after a commit exactly when the
\* statement ran and produced no rows, and (True, rows) without a commit
\* exactly when it ran and produced rows; when it returns (False, message)
\* nothing was committed.
C17_CommitIffNoRows ==
  last_op.op = "execute_sql" =>
    /\ (last_op.committed /\ last_op.outcome = "message")
         <=> (last_op.result = "ok" /\ ~last_op.returns_rows)
    /\ last_op.outcome = "rows" <=> (last_op.result = "ok" /\ last_op.returns_rows)
    /\ last_op.committed => ~last_op.returns_rows
    /\ last_op.result = "false" => ~last_op.committed

\* CREATE TABLE products went through the console and was committed.
C17_Witness ==
  /\ last_op.op = "execute_sql"
  /\ last_op.result = "ok"
  /\ last_op.committed
  /\ last_op.outcome = "message"
  /\ engine \in Reachable
  /\ db[engine]["products"].exists

\* C18: after a run whose insert_data returned success, the target table
\* holds the rows it held before the run and the rows of the dataset that
\* was handed over: as many as before plus the length of the dataset.
C18_InsertAppends ==
  etl_run.outcome = "success" =>
    /\ db[engine][TargetTable].exists
    /\ db[engine][TargetTable].rows = etl_run.rows_before + Len(etl_run.etl_data.rows)

\* The second successful run of a one-row dataset into a table that was
\* empty: k = 2, n = 1, the table holds two rows.
C18_Witness ==
  /\ etl_run.outcome = "success"
  /\ Len(etl_run.etl_data.rows) = 1
  /\ etl_run.rows_before = 1
  /\ InitialDb[engine][TargetTable].rows = 0
  /\ db[engine][TargetTable].rows = 2

\* C19: the tables of the databases are as the application found them
\* until some connect call has returned success.
C19_NothingBeforeConnect ==
  db # InitialDb => connected_once

\* C20: add_column_to_existing_table calls DatabaseManager.add_column only
\* with a table selected, a name typed and the name not among the columns
\* the table has; when it does not call it, no statement is sent and the
\* databases stay as they are.
C20_AddColumnGuarded ==
  [][last_op'.handler = "add_column_to_existing_table" =>
       IF last_op'.op = "add_column"
       THEN /\ SelectedTable # ""
            /\ new_column_name # ""
            /\ last_op'.table = SelectedTable
            /\ last_op'.columns = <<new_column_name>>
            /\ new_column_name \notin SeqToSet(DbColumns(engine, SelectedTable))
       ELSE /\ ~last_op'.emitted
            /\ db' = db]_vars

\* A column was added to the selected table.
C20_Witness ==
  /\ last_op.handler = "add_column_to_existing_table"
  /\ last_op.op = "add_column"
  /\ last_op.result = "ok"
  /\ last_op.columns = <<"note">>
  /\ "note" \in SeqToSet(DbColumns(engine, last_op.table))

\* C21: while mappings are only made with add_field_mapping, no source
\* field stands in two rows of the mapping table: adding a source field
\* that is mapped already leaves the table as it is.
C21_NoSourceMappedTwice == ~HasDuplicateSource(mappings_table)

\* The table is full, one row for each of the two source fields: every
\* further add_field_mapping names a mapped source field.
C21_Witness ==
  /\ Len(mappings_table) = 2
  /\ mappings_table[1].source # mappings_table[2].source
  /\ Sources(mappings_table) = SeqToSet(source_data.columns)

\* C22: after run_etl_process, whatever its outcome and whether SCD2 is on
\* or off, the loaded source dataset has the columns, in the order, and the
\* rows it had before the call.
C22_SourceUntouched ==
  etl_run.outcome # "none" => source_data = etl_run.source_before

\* A run with SCD2 on handed over a frame with renamed and added columns,
\* and the source still has its own.
C22_Witness ==
  /\ etl_run.insert_called
  /\ scd2_checkbox
  /\ etl_run.etl_data.rows # <<>>
  /\ etl_run.etl_data.columns # source_data.columns
  /\ source_data = etl_run.source_before

\* C23: when drop_table(t) has returned success and create_table(t, ...) is
\* called next with a definition the database accepts (no table t, every
\* foreign key pointing at a column the database has) and nothing fails on
\* the way to the database, create_table returns success.
C23_CreateAfterDropSucceeds ==
  [][(/\ last_op.op = "drop_table"
      /\ last_op.result = "ok"
      /\ last_op'.op = "create_table"
      /\ last_op'.table = last_op.table
      /\ last_op'.fate = "db"
      /\ NoDuplicates(ColumnNames(last_op'.columns))
      /\ DbAcceptsCreate(engine, last_op'.table, last_op'.columns, last_op'.fks))
     => last_op'.result = "ok"]_vars

\* C24: in every state each source field in the mapping table is a column
\* of the source dataset that is loaded, also when another file has been
\* loaded after mappings were made.
C24_MappedSourcesAreColumns ==
  \A i \in 1..Len(mappings_table) :
    mappings_table[i].source \in SeqToSet(source_data.columns)

\* C25: in every state every row of the columns table carries a Primary Key
\* and a Nullable checkbox item, also after a successful create has reset
\* the form.
C25_RowsCarryCheckboxes ==
  \A i \in 1..Len(columns_table) :
    columns_table[i].primary_key # NoItem /\ columns_table[i].nullable # NoItem

\* C26: whenever the target table of a constraint row is changed, the
\* target-column choices of that row are afterwards the columns of the
\* table now selected in it, also when rows above it have been removed.
C26_ChangeRepopulatesSameRow ==
  [][\A i \in 1..Len(constraints_table) :
       (/\ Len(constraints_table') = Len(constraints_table)
        /\ constraints_table'[i].target_table.current
             # constraints_table[i].target_table.current)
       => constraints_table'[i].target_column
            = get_table_columns(engine, CurrentText(constraints_table'[i].target_table))]_vars

====
